---- MODULE Spec2Model ----
(***************************************************************************)
(* Model of src/main.rs: the three-pass load of an OSM extract into a Map  *)
(* (main, lines 226-284) and Map::check_connectivity (lines 97-127).       *)
(*                                                                         *)
(* A record of the source is a node, a way or a relation.  A NodeInfo's    *)
(* tags and coordinates are copied by the load and read by neither the     *)
(* load nor the analysis; the model keeps a node's reachable_nodes only.   *)
(* A way's tags are the set of their keys, which is all is_highway reads.  *)
(***************************************************************************)
EXTENDS Integers, Sequences, FiniteSets, TLC

\* Bounds of the enumerated inputs.
MaxRefs == 4
MaxWays == 2
PathWayLen == 50

\* The size above which check_connectivity prints a component's size.
Threshold == 500

VARIABLES
    stream,          \* the records of the file, in file order
    pc,              \* where main is
    pos,             \* the next record pbf.iter() yields (1-based)
    src_err,         \* the Err the source last returned: none, decode, rewind
    panic,           \* the panic that ended the process, or none
    used_ids,        \* main's used_ids
    nodes,           \* main's nodes, then Map.nodes: NodeId -> reachable_nodes
    ways,            \* main's ways, then Map.ways: WayId -> WayInfo
    visited,         \* check_connectivity's visited: the ids mapped to true
    to_visit,        \* check_connectivity's queue
    components,      \* check_connectivity's counter
    component_size,  \* check_connectivity's size of the component at hand
    output,          \* the lines printed to stdout
    comp_points,     \* history: the points marked visited in the component at hand
    found,           \* history: size and points of every finished component
    enq,             \* history: how often each point was pushed on to_visit
    deq,             \* history: how often each point was popped from to_visit
    run,             \* which run of check_connectivity this is
    first_run        \* history: what the first run returned and found

vars == <<stream, pc, pos, src_err, panic, used_ids, nodes, ways, visited, to_visit,
          components, component_size, output, comp_points, found, enq, deq,
          run, first_run>>

loadVars == <<used_ids, nodes, ways>>
bfsVars == <<visited, to_visit, components, component_size, output, comp_points,
             found, enq, deq, run, first_run>>

----------------------------------------------------------------------------
(* Inputs *)

NodeIds == 1..MaxRefs
TagSets == {{"name"}, {"highway", "name"}}

Range(s) == {s[i] : i \in 1..Len(s)}

NodeRec(n) == [kind |-> "node", id |-> n]
WayRec(k, tags, ns) == [kind |-> "way", id |-> k, tags |-> tags, nodes |-> ns]
RelationRec == [kind |-> "relation", id |-> 1]

RECURSIVE SumTo(_, _)
SumTo(f, n) == IF n = 0 THEN 0 ELSE f[n] + SumTo(f, n - 1)

\* Node ids are compared for equality only, so the references of a file are
\* enumerated up to renaming: a new id is the smallest one not used so far.
FirstUse(s) ==
    \A i \in 1..Len(s) : \A v \in 1..(s[i] - 1) : \E j \in 1..(i - 1) : s[j] = v

Slice(s, from, len) == [i \in 1..len |-> s[from + i]]

NodeRecords(present) ==
    SelectSeq([i \in 1..MaxRefs |-> NodeRec(i)], LAMBDA r : r.id \in present)

WayRecords(lens, tags, flat) ==
    [k \in 1..Len(lens) |-> WayRec(k, tags[k], Slice(flat, SumTo(lens, k - 1), lens[k]))]

\* A file: the node records (at most one id has none), the ways, a relation.
File(absent, lens, tags, flat) ==
    NodeRecords(NodeIds \ absent) \o WayRecords(lens, tags, flat) \o <<RelationRec>>

\* The files of at most MaxWays ways with at most MaxRefs references in all,
\* the ids with no node record being one of `absents`.
IsFileWith(f, absents) ==
    \E nw \in 0..MaxWays :
    \E lens \in {l \in [1..nw -> 0..MaxRefs] : SumTo(l, nw) <= MaxRefs} :
    \E tags \in [1..nw -> TagSets] :
    \E flat \in {s \in [1..SumTo(lens, nw) -> NodeIds] : FirstUse(s)} :
    \E absent \in absents :
        f = File(absent, lens, tags, flat)

\* At most one id has no node record.
IsFile(f) == IsFileWith(f, {{}} \cup {{n} : n \in NodeIds})

\* Every id has its node record.
IsCompleteFile(f) == IsFileWith(f, {{}})

\* A file whose highways link the points 1..n into one path, each way
\* taking up where the one before ends and running over PathWayLen pairs.
PathWay(k, n) ==
    LET from == (k - 1) * PathWayLen + 1
        to == IF from + PathWayLen < n THEN from + PathWayLen ELSE n
    IN  WayRec(k, {"highway", "name"}, [i \in 1..(to - from + 1) |-> from + i - 1])

PathStream(n) ==
    [i \in 1..n |-> NodeRec(i)]
        \o [k \in 1..((n + PathWayLen - 2) \div PathWayLen) |-> PathWay(k, n)]
        \o <<RelationRec>>

BigStreams ==
    {PathStream(Threshold)}
        \cup {<<NodeRec(1), WayRec(1, {"highway", "name"}, <<>>), RelationRec>>,
              <<NodeRec(1), WayRec(1, {"name"}, <<1, 2>>), RelationRec>>}

----------------------------------------------------------------------------
(* The load *)

is_highway(way) == "highway" \in way.tags

Running == panic = "none"

\* main before its first loop; check_connectivity's locals as it declares them.
InitRest ==
    /\ pc = "pass1"
    /\ pos = 1
    /\ src_err = "none"
    /\ panic = "none"
    /\ used_ids = {}
    /\ nodes = <<>>
    /\ ways = <<>>
    /\ visited = {}
    /\ to_visit = <<>>
    /\ components = 0
    /\ component_size = 0
    /\ output = <<>>
    /\ comp_points = {}
    /\ found = <<>>
    /\ enq = <<>>
    /\ deq = <<>>
    /\ run = 1
    /\ first_run = [components |-> 0, found |-> <<>>]

Init == IsFile(stream) /\ InitRest

InitBig == stream \in BigStreams /\ InitRest

InitComplete == IsCompleteFile(stream) /\ InitRest

\* Mutant of ReadFail: the record that does not decode is passed over.
ReadFailSkipped ==
    /\ Running
    /\ pc \in {"pass1", "pass2", "pass3"}
    /\ pos <= Len(stream)
    /\ src_err' = "decode"
    /\ pos' = pos + 1
    /\ UNCHANGED <<stream, pc, panic, loadVars, bfsVars>>

\* obj.unwrap() on a record the source could not decode.
ReadFail ==
    /\ Running
    /\ pc \in {"pass1", "pass2", "pass3"}
    /\ pos <= Len(stream)
    /\ src_err' = "decode"
    /\ panic' = "decode"
    /\ UNCHANGED <<stream, pc, pos, loadVars, bfsVars>>

\* One iteration of the first loop over pbf.iter().
Pass1Step ==
    /\ Running
    /\ pc = "pass1"
    /\ pos <= Len(stream)
    /\ LET obj == stream[pos] IN
        used_ids' = IF obj.kind = "way" /\ is_highway(obj)
                    THEN used_ids \cup Range(obj.nodes)
                    ELSE used_ids
    /\ pos' = pos + 1
    /\ UNCHANGED <<stream, pc, src_err, panic, nodes, ways, bfsVars>>

Pass1End ==
    /\ Running
    /\ pc = "pass1"
    /\ pos > Len(stream)
    /\ pc' = "rewind1"
    /\ UNCHANGED <<stream, pos, src_err, panic, loadVars, bfsVars>>

\* pbf.rewind().unwrap() where the source could not seek.
RewindFail ==
    /\ Running
    /\ pc \in {"rewind1", "rewind2"}
    /\ src_err' = "rewind"
    /\ panic' = "rewind"
    /\ UNCHANGED <<stream, pc, pos, loadVars, bfsVars>>

Rewind1 ==
    /\ Running
    /\ pc = "rewind1"
    /\ pos' = 1
    /\ pc' = "pass2"
    /\ UNCHANGED <<stream, src_err, panic, loadVars, bfsVars>>

\* One iteration of the second loop over pbf.iter().
Pass2Step ==
    /\ Running
    /\ pc = "pass2"
    /\ pos <= Len(stream)
    /\ LET obj == stream[pos] IN
        nodes' = IF obj.kind = "node" /\ obj.id \in used_ids
                 THEN (obj.id :> <<>>) @@ nodes
                 ELSE nodes
    /\ pos' = pos + 1
    /\ UNCHANGED <<stream, pc, src_err, panic, used_ids, ways, bfsVars>>

\* drop(used_ids)
Pass2End ==
    /\ Running
    /\ pc = "pass2"
    /\ pos > Len(stream)
    /\ used_ids' = {}
    /\ pc' = "rewind2"
    /\ UNCHANGED <<stream, pos, src_err, panic, nodes, ways, bfsVars>>

Rewind2 ==
    /\ Running
    /\ pc = "rewind2"
    /\ pos' = 1
    /\ pc' = "pass3"
    /\ UNCHANGED <<stream, src_err, panic, loadVars, bfsVars>>

\* Vec::push on the reachable_nodes of nodes[id].
PushNeighbour(ns, id, neigh) == [ns EXCEPT ![id] = Append(@, neigh)]

\* Mutant of LinkPairs: the second push, from p[i+1] back to p[i], is left out.
RECURSIVE LinkPairsForwardOnly(_, _, _)
LinkPairsForwardOnly(ns, w, i) ==
    IF i > Len(w) - 1 THEN [panic |-> "none", nodes |-> ns]
    ELSE IF w[i] \notin DOMAIN ns THEN [panic |-> "missing_node", nodes |-> ns]
    ELSE LET linked == PushNeighbour(ns, w[i], w[i + 1]) IN
         IF w[i + 1] \notin DOMAIN linked
         THEN [panic |-> "missing_node", nodes |-> linked]
         ELSE LinkPairsForwardOnly(linked, w, i + 1)

\* The body of `for i in 0..way.nodes.len() - 1`, from pair i on (1-based):
\* each get_mut(..).unwrap() panics on an id that is no key of nodes, the
\* second one after the first push was made.
RECURSIVE LinkPairs(_, _, _)
LinkPairs(ns, w, i) ==
    IF i > Len(w) - 1 THEN [panic |-> "none", nodes |-> ns]
    ELSE IF w[i] \notin DOMAIN ns THEN [panic |-> "missing_node", nodes |-> ns]
    ELSE LET linked == PushNeighbour(ns, w[i], w[i + 1]) IN
         IF w[i + 1] \notin DOMAIN linked
         THEN [panic |-> "missing_node", nodes |-> linked]
         ELSE LinkPairs(PushNeighbour(linked, w[i + 1], w[i]), w, i + 1)

\* The loop with its bound len() - 1 on a usize.  For len() = 0 a build with
\* overflow checks panics on the subtraction; one without wraps the bound
\* to usize::MAX and panics on way.nodes[0].
PairLoop(ns, w, overflow_checks) ==
    IF Len(w) = 0
    THEN [panic |-> IF overflow_checks THEN "overflow" ELSE "index", nodes |-> ns]
    ELSE LinkPairs(ns, w, 1)

WayInfo(way) == [tags |-> way.tags, nodes |-> way.nodes]

\* One iteration of the third loop over pbf.iter().
Pass3Step ==
    /\ Running
    /\ pc = "pass3"
    /\ pos <= Len(stream)
    /\ \E overflow_checks \in BOOLEAN :
        LET obj == stream[pos] IN
        IF obj.kind = "way" /\ is_highway(obj)
        THEN LET r == PairLoop(nodes, obj.nodes, overflow_checks) IN
             /\ nodes' = r.nodes
             /\ panic' = r.panic
             /\ IF r.panic = "none"
                THEN /\ ways' = (obj.id :> WayInfo(obj)) @@ ways
                     /\ pos' = pos + 1
                ELSE UNCHANGED <<ways, pos>>
        ELSE /\ pos' = pos + 1
             /\ UNCHANGED <<nodes, ways, panic>>
    /\ UNCHANGED <<stream, pc, src_err, used_ids, bfsVars>>

\* Map::new(nodes, ways) and the call of check_connectivity.
Pass3End ==
    /\ Running
    /\ pc = "pass3"
    /\ pos > Len(stream)
    /\ pc' = "for"
    /\ enq' = [n \in DOMAIN nodes |-> 0]
    /\ deq' = [n \in DOMAIN nodes |-> 0]
    /\ UNCHANGED <<stream, pos, src_err, panic, loadVars, visited, to_visit,
                   components, component_size, output, comp_points, found,
                   run, first_run>>

----------------------------------------------------------------------------
(* Map::check_connectivity *)

\* Mutant of IsRoot: the test of reachable_nodes.len() is left out.
IsRootAnyPoint(curr) == curr \notin visited

\* The condition of the if in the for loop.  visited.entry(k).or_insert(false)
\* reads as false for an id with no entry; such an entry is never told from
\* none, so visited is the set of ids mapped to true.
IsRoot(curr) == curr \notin visited /\ Len(nodes[curr]) # 0

Oversized(size) == size > Threshold

\* Mutant of ForRoot: the root is pushed but not marked visited.
ForRootUnmarked ==
    /\ Running
    /\ pc = "for"
    /\ \E curr \in DOMAIN nodes :
        /\ curr \notin visited
        /\ Len(nodes[curr]) # 0
        /\ components' = components + 1
        /\ component_size' = 1
        /\ to_visit' = Append(to_visit, curr)
        /\ comp_points' = {curr}
        /\ enq' = [enq EXCEPT ![curr] = @ + 1]
    /\ pc' = "while"
    /\ UNCHANGED <<stream, pos, src_err, panic, loadVars, visited, output, found,
                   deq, run, first_run>>

\* The for loop over self.nodes.iter() reaches the next point that passes the
\* if, in the HashMap's order, which is any order: the points it passes over
\* fail the if and, visited only growing, would fail it later too.
ForRoot ==
    /\ Running
    /\ pc = "for"
    /\ \E curr \in DOMAIN nodes :
        /\ IsRoot(curr)
        /\ components' = components + 1
        /\ component_size' = 1
        /\ to_visit' = Append(to_visit, curr)
        /\ visited' = visited \cup {curr}
        /\ comp_points' = {curr}
        /\ enq' = [enq EXCEPT ![curr] = @ + 1]
    /\ pc' = "while"
    /\ UNCHANGED <<stream, pos, src_err, panic, loadVars, output, found, deq,
                   run, first_run>>

\* Mutant of Expand: only the first entry of reachable_nodes is looked at.
ExpandFirstOnly(adj, i, st) ==
    IF Len(adj) = 0 \/ adj[1] \in st.visited THEN st
    ELSE [visited |-> st.visited \cup {adj[1]},
          to_visit |-> Append(st.to_visit, adj[1]),
          enq |-> [st.enq EXCEPT ![adj[1]] = @ + 1],
          points |-> st.points \cup {adj[1]}]

\* The for loop over the popped node's reachable_nodes, from entry i on.
RECURSIVE Expand(_, _, _)
Expand(adj, i, st) ==
    IF i > Len(adj) THEN st
    ELSE LET neigh == adj[i] IN
         IF neigh \notin st.visited
         THEN Expand(adj, i + 1,
                     [visited |-> st.visited \cup {neigh},
                      to_visit |-> Append(st.to_visit, neigh),
                      enq |-> [st.enq EXCEPT ![neigh] = @ + 1],
                      points |-> st.points \cup {neigh}])
         ELSE Expand(adj, i + 1, st)

\* One iteration of the while loop.
WhileStep ==
    /\ Running
    /\ pc = "while"
    /\ to_visit # <<>>
    /\ LET node == Head(to_visit) IN
        IF node \in DOMAIN nodes
        THEN LET st == Expand(nodes[node], 1,
                              [visited |-> visited, to_visit |-> Tail(to_visit),
                               enq |-> enq, points |-> comp_points]) IN
             /\ component_size' = component_size + 1
             /\ visited' = st.visited
             /\ to_visit' = st.to_visit
             /\ enq' = st.enq
             /\ comp_points' = st.points
             /\ deq' = [deq EXCEPT ![node] = @ + 1]
             /\ UNCHANGED panic
        ELSE /\ panic' = "missing_node"
             /\ UNCHANGED <<component_size, visited, to_visit, enq, comp_points, deq>>
    /\ UNCHANGED <<stream, pc, pos, src_err, loadVars, components, output, found,
                   run, first_run>>

\* The while loop ends: the size is printed if it is over the threshold.
WhileEnd ==
    /\ Running
    /\ pc = "while"
    /\ to_visit = <<>>
    /\ output' = IF Oversized(component_size)
                 THEN Append(output, <<"Component size is", component_size>>)
                 ELSE output
    /\ found' = Append(found, [size |-> component_size, points |-> comp_points])
    /\ pc' = "for"
    /\ UNCHANGED <<stream, pos, src_err, panic, loadVars, visited, to_visit,
                   components, component_size, comp_points, enq, deq,
                   run, first_run>>

\* The for loop ends: check_connectivity returns and main prints the count.
ForEnd ==
    /\ Running
    /\ pc = "for"
    /\ \A curr \in DOMAIN nodes : ~IsRoot(curr)
    /\ output' = Append(output, <<"Number of components is", components>>)
    /\ pc' = "done"
    /\ UNCHANGED <<stream, pos, src_err, panic, loadVars, visited, to_visit,
                   components, component_size, comp_points, found, enq, deq,
                   run, first_run>>

\* A second call of check_connectivity on the same Map (it takes &self).
Rerun ==
    /\ Running
    /\ pc = "done"
    /\ run = 1
    /\ run' = 2
    /\ first_run' = [components |-> components, found |-> found]
    /\ visited' = {}
    /\ to_visit' = <<>>
    /\ components' = 0
    /\ component_size' = 0
    /\ comp_points' = {}
    /\ found' = <<>>
    /\ enq' = [n \in DOMAIN nodes |-> 0]
    /\ deq' = [n \in DOMAIN nodes |-> 0]
    /\ pc' = "for"
    /\ UNCHANGED <<stream, pos, src_err, panic, loadVars, output>>

Next ==
    \/ ReadFail
    \/ Pass1Step
    \/ Pass1End
    \/ RewindFail
    \/ Rewind1
    \/ Pass2Step
    \/ Pass2End
    \/ Rewind2
    \/ Pass3Step
    \/ Pass3End
    \/ ForRoot
    \/ WhileStep
    \/ WhileEnd
    \/ ForEnd

Spec == Init /\ [][Next]_vars

\* Single-threaded and synchronous: a step that can be taken is taken.  The
\* files are those with every node record: check_connectivity reads nodes
\* only, and a nodes mapping that a load of a file with an absent record
\* hands over is also handed over for the file that has the record and does
\* not tag as highway the one-point ways that reference it.
FairSpec == InitComplete /\ [][Next]_vars /\ WF_vars(Next)

\* The analysis run twice on the loaded Map.
SpecRerun == Init /\ [][Next \/ Rerun]_vars

\* Files with a component of Threshold points.
SpecBig == InitBig /\ [][Next]_vars
----------------------------------------------------------------------------
(* What the claims speak of *)

\* The load completed and the Map reached check_connectivity.
Loaded == Running /\ pc \in {"for", "while", "done"}

\* The way records of the file that is_highway accepts.
AcceptedWays ==
    {stream[i] : i \in {j \in 1..Len(stream) :
                          stream[j].kind = "way" /\ is_highway(stream[j])}}

AcceptedIds == UNION {Range(w.nodes) : w \in AcceptedWays}

NonIsolated == {n \in DOMAIN nodes : Len(nodes[n]) # 0}

\* The undirected graph of the neighbour-list entries.
Adjacent(u, v) == v \in Range(nodes[u]) \/ u \in Range(nodes[v])

RECURSIVE Reach(_)
Reach(S) ==
    LET T == S \cup {v \in DOMAIN nodes : \E u \in S : Adjacent(u, v)}
    IN  IF T = S THEN S ELSE Reach(T)

GraphComponents == {Reach({n}) : n \in NonIsolated}

RECURSIVE SumSizes(_, _)
SumSizes(f, n) == IF n = 0 THEN 0 ELSE f[n].size + SumSizes(f, n - 1)

SizeReported(size) ==
    \E j \in 1..Len(output) : output[j] = <<"Component size is", size>>

\* C1: the count check_connectivity returns is the number of connected
\* components of the undirected graph on the points with a nonempty neighbour
\* list; no point with an empty list is in a component; two accepted ways of
\* at least two points give 1 when they share a point and 2 when they do not.
C1_CountsComponents ==
    pc = "done" =>
        /\ components = Cardinality(GraphComponents)
        /\ output[Len(output)] = <<"Number of components is", Cardinality(GraphComponents)>>
        /\ \A i \in 1..Len(found) : found[i].points \subseteq NonIsolated
        /\ \A a, b \in AcceptedWays :
            (AcceptedWays = {a, b} /\ a # b /\ Len(a.nodes) >= 2 /\ Len(b.nodes) >= 2)
                => components = IF Range(a.nodes) \cap Range(b.nodes) = {} THEN 2 ELSE 1

C1_Witness ==
    /\ pc = "done"
    /\ components = 2
    /\ Cardinality(AcceptedWays) = 2

\* C2: after a load that completes, the keys of the point mapping are exactly
\* the point ids in the point lists of the accepted ways.
C2_PointsAreAcceptedIds == Loaded => DOMAIN nodes = AcceptedIds

\* C3: the component sizes check_connectivity computes sum to the number of
\* points with nonempty adjacency, and no point is in two components.
C3_SizesSumToPoints ==
    pc = "done" =>
        /\ SumSizes(found, Len(found)) = Cardinality(NonIsolated)
        /\ \A i, j \in 1..Len(found) : i # j => found[i].points \cap found[j].points = {}

\* C4: a component's size is printed if and only if the component has more
\* than 500 points.
C4_ReportIffOver500 ==
    pc = "done" =>
        \A i \in 1..Len(found) :
            SizeReported(found[i].size) <=> Cardinality(found[i].points) > Threshold

\* C5: when the load completes, every point id of every accepted way and of
\* every stored way is a key of the point mapping (a way that references an
\* absent id aborts the load in pass 3).
C5_StoredWaysResolve ==
    Loaded =>
        /\ \A w \in AcceptedWays : Range(w.nodes) \subseteq DOMAIN nodes
        /\ \A k \in DOMAIN ways : Range(ways[k].nodes) \subseteq DOMAIN nodes

\* C6: after pass 3 every consecutive pair of every accepted way is in both
\* points' neighbour lists, and the neighbour relation is symmetric.
C6_PairsLinkedBothWays ==
    Loaded =>
        /\ \A w \in AcceptedWays : \A i \in 1..(Len(w.nodes) - 1) :
            /\ w.nodes[i + 1] \in Range(nodes[w.nodes[i]])
            /\ w.nodes[i] \in Range(nodes[w.nodes[i + 1]])
        /\ \A u, v \in DOMAIN nodes :
            v \in Range(nodes[u]) => u \in Range(nodes[v])

C6_Witness ==
    /\ Loaded
    /\ \E w \in AcceptedWays :
        /\ Len(w.nodes) >= 3
        /\ w.nodes[1] # w.nodes[2]
        /\ w.nodes[2] # w.nodes[3]

\* C7: a second run of check_connectivity on the same Map, with the points
\* iterated in any other order, returns the count the first run returned.
C7_CountOrderIndependent ==
    (run = 2 /\ pc = "done") => components = first_run.components

C7_Witness ==
    /\ run = 2
    /\ pc = "done"
    /\ components = 2
    /\ found # first_run.found

\* The order of main's stages.
MainOrder ==
    {<<"pass1", "rewind1">>, <<"rewind1", "pass2">>, <<"pass2", "rewind2">>,
     <<"rewind2", "pass3">>, <<"pass3", "for">>, <<"for", "while">>,
     <<"while", "for">>, <<"for", "done">>}

\* What every step of main keeps to.
C8_Step ==
    /\ panic = "none"
    /\ pc' # pc => (<<pc, pc'>> \in MainOrder /\ panic' = "none")
    /\ (pc \in {"pass1", "pass2", "pass3"} /\ pc' # pc) => pos > Len(stream)
    /\ (pc \in {"rewind1", "rewind2"} /\ pc' # pc) => pos' = 1
    /\ src_err' # "none" => (panic' = src_err' /\ pc' = pc /\ output' = <<>>)
    /\ output' # <<>> => (pc' \in {"for", "while", "done"} /\ panic' = "none")
    /\ stream' = stream

\* C8: the passes and rewinds run in their order, each pass to the end of the
\* file and each rewind back to its start; the analysis starts and prints
\* only after them; a record that does not decode or a failed rewind ends
\* the process at once, with nothing printed and no further step.
C8_LoadOrder == [][C8_Step]_vars

C8_Witness == pc = "pass3" /\ panic = "decode" /\ pos > 1

\* Pushes and pops per point, and the queue against visited.
C9_Safe ==
    /\ \A n \in DOMAIN enq : enq[n] <= 1 /\ deq[n] <= enq[n]
    /\ \A n \in DOMAIN enq : enq[n] = 1 <=> n \in visited
    /\ Range(to_visit) \subseteq visited

\* C9: in a run of check_connectivity a visited point stays visited, each
\* point is pushed and popped at most once, and the run ends with the queue
\* empty.
C9_BfsTerminates ==
    /\ []C9_Safe
    /\ [][visited \subseteq visited']_vars
    /\ [](pc = "for" => <>(pc = "done" /\ to_visit = <<>>))

C9_Witness ==
    /\ pc = "done"
    /\ Cardinality({n \in DOMAIN deq : deq[n] = 1}) >= 3
    /\ components = 1

\* An iteration of pass 3 on an accepted way of fewer than two points.
C10_ShortWayStep ==
    (/\ pc = "pass3"
     /\ pos <= Len(stream)
     /\ src_err' = "none"
     /\ stream[pos].kind = "way"
     /\ is_highway(stream[pos])
     /\ Len(stream[pos].nodes) < 2)
        => /\ panic' = "none"
           /\ nodes' = nodes
           /\ stream[pos].id \in DOMAIN ways'
           /\ ways'[stream[pos].id] = WayInfo(stream[pos])
           /\ pos' = pos + 1

\* C10: pass 3 completes for an accepted way of fewer than two points, the
\* empty one included: it adds no adjacency, stores the way and goes on.
C10_ShortWaysLoad == [][C10_ShortWayStep]_vars

====
